---- MODULE Spec2Model ----
(***************************************************************************)
(* Manifest format negotiation of utils/dockerutil (ParseManifest, the     *)
(* four variant parsers, GetManifestReferences,                            *)
(* GetSupportedManifestTypes), the closers.Close helper and the namepath   *)
(* pathers.                                                                *)
(*                                                                         *)
(* Input bytes are modelled by what the JSON decoder sees in them: whether *)
(* they are well-formed JSON, the schemaVersion and mediaType fields, the  *)
(* shape of the document (config+layers or manifests), the digest strings  *)
(* of its descriptors, and an amount of insignificant whitespace.          *)
(* Strings that are compared character by character by the code (digests)  *)
(* are sequences of one-character strings.                                 *)
(***************************************************************************)
EXTENDS Integers, Sequences, FiniteSets, TLC

VARIABLES
    op,         \* the exported function running (or last run), "none" at start
    pc,         \* position inside it
    input,      \* the bytes handed to the call
    readFails,  \* whether io.ReadAll on the reader returns an error
    digester,   \* algorithm of the digest in the descriptor the library returns
    attempts,   \* ParseManifest: the variant parsers called so far, in order
    res,        \* (manifest, digest, err) returned by the last parse call
    refsRes,    \* (refs, err) returned by the last GetManifestReferences
    closed,     \* per closer: has the resource been released
    closing,    \* the closer handed to the last call of Close
    log,        \* what Close wrote to the log, oldest first
    closeRet,   \* how the last call of Close ended
    supported,  \* the string the last GetSupportedManifestTypes returned
    pathCall    \* the last call of a pather: function, layout root, argument, result

vars == <<op, pc, input, readFails, digester, attempts, res, refsRes,
          closed, closing, log, closeRet, supported, pathCall>>

parseVars == <<op, pc, input, readFails, digester, attempts, res, refsRes>>
closeVars == <<closed, closing, log, closeRet>>
typesVars == <<supported>>
pathVars == <<pathCall>>

----------------------------------------------------------------------------
(* Bounds *)

\* most descriptors (config, layers, manifests) in one document
MaxRefs == 2
\* most extra insignificant whitespace bytes in one document
MaxWs == 1
\* most entries kept in the log
MaxLog == 3
\* most path segments in one repository name
MaxRepoSegs == 2

----------------------------------------------------------------------------
(* Media types, dockerutil.go:28-33 *)

v2ManifestType     == "application/vnd.docker.distribution.manifest.v2+json"
v2ManifestListType == "application/vnd.docker.distribution.manifest.list.v2+json"
ociManifestType    == "application/vnd.oci.image.manifest.v1+json"
ociIndexType       == "application/vnd.oci.image.index.v1+json"

SupportedTypes == {v2ManifestType, v2ManifestListType, ociManifestType, ociIndexType}

\* a mediaType field may also be absent ("") or name something else
OtherType == "application/vnd.docker.distribution.manifest.v1+json"
DeclaredTypes == SupportedTypes \cup {"", OtherType}

----------------------------------------------------------------------------
(* Digests *)

HexLen == 64
HexDigits == <<"0","1","2","3","4","5","6","7","8","9","a","b","c","d","e","f">>
HexChars == {HexDigits[i] : i \in 1..16}

Repeat(c, n) == [i \in 1..n |-> c]

\* digest strings as they appear in descriptors: "<algo>:<hex>"
DigestString(algo, hex) == [algo |-> algo, hex |-> hex]
GoodDigestA == DigestString("sha256", <<"1","a">> \o Repeat("9", HexLen - 2))
GoodDigestB == DigestString("sha256", <<"6","3">> \o Repeat("4", HexLen - 2))
ShortDigest == DigestString("sha256", Repeat("a", HexLen - 1))
EmptyDigestString == DigestString("", <<>>)
RefDigests == <<GoodDigestA, GoodDigestB, ShortDigest>>

\* core.Digest{} and a parsed core.Digest
ZeroDigest == [algo |-> "", hex |-> <<>>]
Nil == <<>>

\* core.ParseSHA256Digest
ParseSHA256Digest(s) ==
    IF s.algo = "" /\ s.hex = <<>>
    THEN [d |-> ZeroDigest, err |-> <<"empty digest">>]
    ELSE IF s.algo # "sha256"
    THEN [d |-> ZeroDigest, err |-> <<"unsupported digest algorithm">>]
    ELSE IF Len(s.hex) # HexLen \/ \E i \in 1..Len(s.hex) : s.hex[i] \notin HexChars
    THEN [d |-> ZeroDigest, err |-> <<"invalid sha256 hex">>]
    ELSE [d |-> [algo |-> "sha256", hex |-> s.hex], err |-> Nil]

----------------------------------------------------------------------------
(* Input bytes *)

Shapes == {"image", "list"}

RECURSIVE SeqsUpTo(_, _)
SeqsUpTo(S, n) ==
    IF n = 0 THEN {<<>>}
    ELSE LET shorter == SeqsUpTo(S, n - 1)
         IN  shorter \cup {Append(s, x) : s \in {t \in shorter : Len(t) = n - 1}, x \in S}

RefSeqs == SeqsUpTo(1..Len(RefDigests), MaxRefs)

Malformed(w) ==
    [json |-> FALSE, schemaVersion |-> 0, mediaType |-> "", shape |-> "image",
     refs |-> <<>>, ws |-> w]

\* refs holds indexes into RefDigests: for the image shape the config's digest
\* followed by the layers', for the list shape the manifests'
Inputs ==
    {Malformed(w) : w \in 0..MaxWs}
    \cup [json : {TRUE}, schemaVersion : {1, 2}, mediaType : DeclaredTypes,
          shape : Shapes, refs : RefSeqs, ws : 0..MaxWs]

----------------------------------------------------------------------------
(* The docker/distribution library as dockerutil.go calls it *)

TypeOrder ==
    <<v2ManifestType, v2ManifestListType, ociManifestType, ociIndexType, "", OtherType>>

IndexIn(seq, x) == CHOOSE i \in 1..Len(seq) : seq[i] = x

Digit(n) == HexDigits[n + 1]

\* the sha256 hash of the bytes, as 64 hex characters: distinct bytes of the
\* model hash to distinct values (no collisions)
Sha256Hex(b) ==
    LET head == <<Digit(IF b.json THEN 1 ELSE 0), Digit(b.schemaVersion),
                  Digit(IndexIn(TypeOrder, b.mediaType)),
                  Digit(IF b.shape = "image" THEN 0 ELSE 1),
                  Digit(b.ws), Digit(Len(b.refs))>>
                 \o [i \in 1..Len(b.refs) |-> Digit(b.refs[i])]
    IN  head \o Repeat("0", HexLen - Len(head))

\* digest.FromBytes: the digest of exactly these bytes under the library's
\* canonical algorithm
FromBytes(b) == DigestString(digester, Sha256Hex(b))

\* the digest strings of the descriptors a decoded document holds
RefStrings(b) == [i \in 1..Len(b.refs) |-> RefDigests[b.refs[i]]]

\* Manifest.References() of the three Go types the library decodes into:
\* an image manifest lists its config then its layers (a zero descriptor when
\* the document has no config), a manifest list lists its manifests
ReferencesOf(gotype, b) ==
    IF gotype = "manifestlist.DeserializedManifestList"
    THEN IF b.shape = "list" THEN RefStrings(b) ELSE <<>>
    ELSE IF b.shape = "image" /\ b.refs # <<>>
         THEN RefStrings(b)
         ELSE <<EmptyDigestString>>

Decoded(gotype, b) ==
    [gotype |-> gotype, mediaType |-> b.mediaType,
     schemaVersion |-> b.schemaVersion, refs |-> ReferencesOf(gotype, b),
     canonical |-> b]

Descriptor(b, mediaType) == [digest |-> FromBytes(b), mediaType |-> mediaType]
NoDescriptor == [digest |-> EmptyDigestString, mediaType |-> ""]

LibFail(e) == [manifest |-> Nil, desc |-> NoDescriptor, err |-> e]
LibOk(m, d) == [manifest |-> <<m>>, desc |-> d, err |-> Nil]

\* the unmarshal functions the imported packages register, one per media type
schema2Func(b) ==
    IF ~b.json THEN LibFail(<<"invalid character">>)
    ELSE IF b.mediaType # v2ManifestType
    THEN LibFail(<<"mediaType in manifest should be", v2ManifestType, b.mediaType>>)
    ELSE LibOk(Decoded("schema2.DeserializedManifest", b), Descriptor(b, v2ManifestType))

ocischemaFunc(b) ==
    IF ~b.json THEN LibFail(<<"invalid character">>)
    ELSE IF b.mediaType # "" /\ b.mediaType # ociManifestType
    THEN LibFail(<<"if present, mediaType in manifest should be", ociManifestType, b.mediaType>>)
    ELSE LibOk(Decoded("ocischema.DeserializedManifest", b), Descriptor(b, ociManifestType))

manifestListFunc(b) ==
    IF ~b.json THEN LibFail(<<"invalid character">>)
    ELSE IF b.mediaType # v2ManifestListType
    THEN LibFail(<<"mediaType in manifest list should be", v2ManifestListType, b.mediaType>>)
    ELSE LibOk(Decoded("manifestlist.DeserializedManifestList", b),
               Descriptor(b, v2ManifestListType))

imageIndexFunc(b) ==
    IF ~b.json THEN LibFail(<<"invalid character">>)
    ELSE IF b.mediaType # "" /\ b.mediaType # ociIndexType
    THEN LibFail(<<"if present, mediaType in image index should be", ociIndexType, b.mediaType>>)
    ELSE LibOk(Decoded("manifestlist.DeserializedManifestList", b),
               Descriptor(b, ociIndexType))

\* distribution.UnmarshalManifest(ctHeader, bytes)
UnmarshalManifest(ctHeader, b) ==
    CASE ctHeader = v2ManifestType     -> schema2Func(b)
      [] ctHeader = ociManifestType    -> ocischemaFunc(b)
      [] ctHeader = v2ManifestListType -> manifestListFunc(b)
      [] ctHeader = ociIndexType       -> imageIndexFunc(b)
      [] OTHER -> LibFail(<<"unsupported manifest media type and no default available">>)

\* manifest.Payload(): the media type half
PayloadMediaType(m) ==
    CASE m.gotype = "schema2.DeserializedManifest" -> m.mediaType
      [] m.gotype = "ocischema.DeserializedManifest" -> ociManifestType
      [] OTHER -> IF m.mediaType = "" THEN ociIndexType ELSE m.mediaType

----------------------------------------------------------------------------
(* dockerutil: the four variant parsers *)

Fail(e) == [manifest |-> Nil, digest |-> ZeroDigest, err |-> e]
Ok(m, d) == [manifest |-> m, digest |-> d, err |-> Nil]

GoTypeIs(m, gotype) == m # Nil /\ m[1].gotype = gotype

\* json.Marshal of the decoded document: the whitespace of the input is gone
Reserialized(b) == [b EXCEPT !.ws = 0]

\* ParseManifestV2 deriving the digest from a re-serialization of the manifest
ParseManifestV2_Remarshal(bytes) ==
    LET u == UnmarshalManifest(v2ManifestType, bytes)
    IN  IF u.err # Nil THEN Fail(<<"unmarshal manifest">> \o u.err)
        ELSE IF ~GoTypeIs(u.manifest, "schema2.DeserializedManifest")
        THEN Fail(<<"expected schema2.DeserializedManifest">>)
        ELSE IF u.manifest[1].schemaVersion # 2
        THEN Fail(<<"unsupported manifest version", Digit(u.manifest[1].schemaVersion)>>)
        ELSE LET p == ParseSHA256Digest(FromBytes(Reserialized(u.manifest[1].canonical)))
             IN  IF p.err # Nil THEN Fail(<<"parse digest">> \o p.err)
                 ELSE Ok(u.manifest, p.d)

\* ParseManifestV2 returns a parsed v2 manifest and its digest.
ParseManifestV2(bytes) ==
    LET u == UnmarshalManifest(v2ManifestType, bytes)
    IN  IF u.err # Nil THEN Fail(<<"unmarshal manifest">> \o u.err)
        ELSE IF ~GoTypeIs(u.manifest, "schema2.DeserializedManifest")
        THEN Fail(<<"expected schema2.DeserializedManifest">>)
        ELSE IF u.manifest[1].schemaVersion # 2
        THEN Fail(<<"unsupported manifest version", Digit(u.manifest[1].schemaVersion)>>)
        ELSE LET p == ParseSHA256Digest(u.desc.digest)
             IN  IF p.err # Nil THEN Fail(<<"parse digest">> \o p.err)
                 ELSE Ok(u.manifest, p.d)

\* ParseManifestV2List returning the decoded list along with the version error
ParseManifestV2List_PartialOnVersion(bytes) ==
    LET u == UnmarshalManifest(v2ManifestListType, bytes)
    IN  IF u.err # Nil THEN Fail(<<"unmarshal manifestlist">> \o u.err)
        ELSE IF ~GoTypeIs(u.manifest, "manifestlist.DeserializedManifestList")
        THEN Fail(<<"expected manifestlist.DeserializedManifestList">>)
        ELSE IF u.manifest[1].schemaVersion # 2
        THEN [manifest |-> u.manifest, digest |-> ZeroDigest,
              err |-> <<"unsupported manifest list version",
                        Digit(u.manifest[1].schemaVersion)>>]
        ELSE LET p == ParseSHA256Digest(u.desc.digest)
             IN  IF p.err # Nil THEN Fail(<<"parse digest">> \o p.err)
                 ELSE Ok(u.manifest, p.d)

\* ParseManifestV2List returns a parsed v2 manifest list and its digest.
ParseManifestV2List(bytes) ==
    LET u == UnmarshalManifest(v2ManifestListType, bytes)
    IN  IF u.err # Nil THEN Fail(<<"unmarshal manifestlist">> \o u.err)
        ELSE IF ~GoTypeIs(u.manifest, "manifestlist.DeserializedManifestList")
        THEN Fail(<<"expected manifestlist.DeserializedManifestList">>)
        ELSE IF u.manifest[1].schemaVersion # 2
        THEN Fail(<<"unsupported manifest list version", Digit(u.manifest[1].schemaVersion)>>)
        ELSE LET p == ParseSHA256Digest(u.desc.digest)
             IN  IF p.err # Nil THEN Fail(<<"parse digest">> \o p.err)
                 ELSE Ok(u.manifest, p.d)

\* ParseOCIManifest returns a parsed OCI manifest and its digest.
ParseOCIManifest(bytes) ==
    LET u == UnmarshalManifest(ociManifestType, bytes)
    IN  IF u.err # Nil THEN Fail(<<"unmarshal oci manifest">> \o u.err)
        ELSE IF ~GoTypeIs(u.manifest, "ocischema.DeserializedManifest")
        THEN Fail(<<"expected ocischema.DeserializedManifest">>)
        ELSE IF u.manifest[1].schemaVersion # 2
        THEN Fail(<<"unsupported oci manifest version", Digit(u.manifest[1].schemaVersion)>>)
        ELSE LET p == ParseSHA256Digest(u.desc.digest)
             IN  IF p.err # Nil THEN Fail(<<"parse digest">> \o p.err)
                 ELSE Ok(u.manifest, p.d)

\* ParseOCIIndex unmarshalling under the manifest list media type
ParseOCIIndex_AsManifestList(bytes) ==
    LET u == UnmarshalManifest(v2ManifestListType, bytes)
    IN  IF u.err # Nil THEN Fail(<<"unmarshal oci index">> \o u.err)
        ELSE LET p == ParseSHA256Digest(u.desc.digest)
             IN  IF p.err # Nil THEN Fail(<<"parse digest">> \o p.err)
                 ELSE Ok(u.manifest, p.d)

\* ParseOCIIndex returns a parsed OCI index and its digest: no type assertion
\* and no schemaVersion test stand between the unmarshal and the digest
ParseOCIIndex(bytes) ==
    LET u == UnmarshalManifest(ociIndexType, bytes)
    IN  IF u.err # Nil THEN Fail(<<"unmarshal oci index">> \o u.err)
        ELSE LET p == ParseSHA256Digest(u.desc.digest)
             IN  IF p.err # Nil THEN Fail(<<"parse digest">> \o p.err)
                 ELSE Ok(u.manifest, p.d)

\* the loop returning the digests parsed so far along with the error
RECURSIVE refsLoop_Prefix(_, _)
refsLoop_Prefix(descs, refs) ==
    IF descs = <<>> THEN [refs |-> refs, err |-> Nil]
    ELSE LET p == ParseSHA256Digest(Head(descs))
         IN  IF p.err # Nil
             THEN [refs |-> refs, err |-> <<"parse digest">> \o p.err]
             ELSE refsLoop_Prefix(Tail(descs), Append(refs, p.d))

\* GetManifestReferences returns a list of references by a V2 or OCI manifest
RECURSIVE refsLoop(_, _)
refsLoop(descs, refs) ==
    IF descs = <<>> THEN [refs |-> refs, err |-> Nil]
    ELSE LET p == ParseSHA256Digest(Head(descs))
         IN  IF p.err # Nil
             THEN [refs |-> Nil, err |-> <<"parse digest">> \o p.err]
             ELSE refsLoop(Tail(descs), Append(refs, p.d))

GetManifestReferences(manifest) == refsLoop(manifest.refs, <<>>)

----------------------------------------------------------------------------
(* dockerutil.ParseManifest, one action per statement that calls out *)

NoResult == [manifest |-> Nil, digest |-> ZeroDigest, err |-> <<"pending">>]
NoRefs == [arg |-> Nil, refs |-> Nil, err |-> <<"pending">>]

\* the library digests with sha256 (its canonical algorithm); the other value
\* stands for a descriptor digest that core.ParseSHA256Digest rejects, the case
\* the "parse digest" branch of each parser handles
Digesters == {"sha256", "sha512"}

\* b, err := io.ReadAll(r); a failed read returns at once
ParseManifest_Read ==
    /\ pc = "idle"
    /\ op' = "ParseManifest"
    /\ IF readFails
       THEN /\ res' = Fail(<<"read", "unexpected EOF">>)
            /\ pc' = "done"
       ELSE /\ res' = NoResult
            /\ pc' = "tryV2"
    /\ UNCHANGED <<input, readFails, digester, attempts, refsRes, closeVars, typesVars, pathVars>>

\* one attempt of the chain: return the parser's result when err == nil, go on
\* to the next attempt otherwise
Attempt(here, name, r, next) ==
    /\ op = "ParseManifest"
    /\ pc = here
    /\ attempts' = Append(attempts, name)
    /\ IF r.err = Nil
       THEN /\ res' = r
            /\ pc' = "done"
       ELSE /\ res' = res
            /\ pc' = next
    /\ UNCHANGED <<op, input, readFails, digester, refsRes, closeVars, typesVars, pathVars>>

\* the first attempt without its return: the chain goes on after a success
ParseManifest_TryV2_NoReturn ==
    /\ op = "ParseManifest"
    /\ pc = "tryV2"
    /\ attempts' = Append(attempts, "ParseManifestV2")
    /\ res' = res
    /\ pc' = "tryOCI"
    /\ UNCHANGED <<op, input, readFails, digester, refsRes, closeVars, typesVars, pathVars>>

\* Try Docker v2 manifest first
ParseManifest_TryV2 ==
    Attempt("tryV2", "ParseManifestV2", ParseManifestV2(input), "tryOCI")

\* Try OCI manifest
ParseManifest_TryOCI ==
    Attempt("tryOCI", "ParseOCIManifest", ParseOCIManifest(input), "tryList")

\* Try Docker v2 manifest list
ParseManifest_TryList ==
    Attempt("tryList", "ParseManifestV2List", ParseManifestV2List(input), "tryIndex")

\* Try OCI index: return ParseOCIIndex(b), whatever it returns
ParseManifest_TryIndex ==
    /\ op = "ParseManifest"
    /\ pc = "tryIndex"
    /\ attempts' = Append(attempts, "ParseOCIIndex")
    /\ res' = ParseOCIIndex(input)
    /\ pc' = "done"
    /\ UNCHANGED <<op, input, readFails, digester, refsRes, closeVars, typesVars, pathVars>>

\* a direct call of one exported variant parser on the bytes
CallVariant(name, r) ==
    /\ pc = "idle"
    /\ ~readFails
    /\ op' = name
    /\ res' = r
    /\ pc' = "done"
    /\ UNCHANGED <<input, readFails, digester, attempts, refsRes, closeVars, typesVars, pathVars>>

CallParseManifestV2 == CallVariant("ParseManifestV2", ParseManifestV2(input))

CallParseOCIManifest == CallVariant("ParseOCIManifest", ParseOCIManifest(input))

CallParseManifestV2List == CallVariant("ParseManifestV2List", ParseManifestV2List(input))

CallParseOCIIndex == CallVariant("ParseOCIIndex", ParseOCIIndex(input))

\* GetManifestReferences on the manifest the last parse returned
CallGetManifestReferences ==
    /\ pc = "done"
    /\ res.manifest # Nil
    /\ refsRes = NoRefs
    /\ LET r == GetManifestReferences(res.manifest[1])
       IN  refsRes' = [arg |-> res.manifest, refs |-> r.refs, err |-> r.err]
    /\ UNCHANGED <<op, pc, input, readFails, digester, attempts, res, closeVars, typesVars, pathVars>>

----------------------------------------------------------------------------
(* dockerutil.GetSupportedManifestTypes *)

\* A formatted string is the sequence of its pieces: the literal text of the
\* format and the values put in place of its verbs.
NotCalled == <<>>

\* fmt.Sprintf with %s verbs: the k-th verb is replaced by the k-th argument
RECURSIVE Sprintf(_, _)
Sprintf(format, args) ==
    IF format = <<>> THEN <<>>
    ELSE IF Head(format) = "%s"
    THEN IF args = <<>>
         THEN <<"%!s(MISSING)">> \o Sprintf(Tail(format), args)
         ELSE <<Head(args)>> \o Sprintf(Tail(format), Tail(args))
    ELSE <<Head(format)>> \o Sprintf(Tail(format), args)

\* the four types with _v2ManifestType where _v2ManifestListType belongs
GetSupportedManifestTypes_Duplicate ==
    Sprintf(<<"%s", ",", "%s", ",", "%s", ",", "%s">>,
            <<v2ManifestType, v2ManifestType, ociManifestType, ociIndexType>>)

GetSupportedManifestTypes ==
    Sprintf(<<"%s", ",", "%s", ",", "%s", ",", "%s">>,
            <<v2ManifestType, v2ManifestListType, ociManifestType, ociIndexType>>)

CallGetSupportedManifestTypes ==
    /\ supported' = GetSupportedManifestTypes
    /\ UNCHANGED <<parseVars, closeVars, pathVars>>

----------------------------------------------------------------------------
(* closers.Close *)

\* what closer.Close() returns for each kind of closer, by the state of the
\* resource:
\*   "file"      an *os.File: the second Close returns a *PathError wrapping
\*               os.ErrClosed, "close <name>: file already closed"
\*   "errClosed" a closer that returns os.ErrClosed itself
\*   "prefixed"  a closer that returns "close: file already closed"
\*   "unflushed" a closer whose first Close fails to flush its data
Closers == {"file", "errClosed", "prefixed", "unflushed"}
NilCloser == "nil"

FileName == "/tmp/blob"

\* an error value: what err.Error() prints and the error it wraps or is
\* (errors.Is); the nil error has neither
GoError(text, cause) == [text |-> text, cause |-> cause]
NilError == GoError("", "nil")

CloseErr(c, wasClosed) ==
    CASE wasClosed /\ c = "file" ->
            GoError("close " \o FileName \o ": file already closed", "os.ErrClosed")
      [] wasClosed /\ c = "prefixed" ->
            GoError("close: file already closed", "os.ErrClosed")
      [] wasClosed -> GoError("file already closed", "os.ErrClosed")
      [] c = "unflushed" ->
            GoError("write " \o FileName \o ": no space left on device", "syscall.ENOSPC")
      [] OTHER -> NilError

Logged(level, msg, err) == [level |-> level, msg |-> msg, err |-> err]

\* Close closes the closer. A message will be logged.
CloseLog(err) ==
    IF err = NilError THEN <<>>
    ELSE IF err.text = "file already closed" \/ err.text = "close: file already closed"
    THEN <<Logged("debug",
                  "attempted to close already closed file (this is usually harmless)", err)>>
    ELSE <<Logged("error", "failed to close a closer", err)>>

Close ==
    /\ Len(log) < MaxLog
    /\ \E c \in Closers \cup {NilCloser} :
        /\ closing' = c
        /\ IF c = NilCloser
           THEN UNCHANGED <<closed, log>>
           ELSE LET err == CloseErr(c, closed[c])
                IN  /\ closed' = [closed EXCEPT ![c] = TRUE]
                    /\ log' = log \o CloseLog(err)
        /\ closeRet' = "returned"
    /\ UNCHANGED <<parseVars, typesVars, pathVars>>

\* the caller opens the resource again (a new handle of the same kind)
Reopen ==
    /\ \E c \in Closers :
        /\ closed[c]
        /\ closed' = [closed EXCEPT ![c] = FALSE]
    /\ UNCHANGED <<closing, log, closeRet, parseVars, typesVars, pathVars>>

----------------------------------------------------------------------------
(* Namepath pathers, one per layout root *)

\* A path is the sequence of its segments (the text between two slashes); a
\* segment is a sequence of pieces: one piece for a fixed word, a name or a
\* tag, one piece per character for a digest and for its shard.
Seg(word) == <<word>>

LayoutRoots == {"DockerV2", "OCIv1"}

RootPrefix(root) ==
    IF root = "DockerV2"
    THEN <<Seg("docker"), Seg("registry"), Seg("v2")>>
    ELSE <<Seg("oci"), Seg("v1")>>

NoPathCall == [fn |-> "none"]
NoMatchError == <<"NoMatchError">>

\* the shard of a digest: its first two hex characters
ShardLen == 2
Shard(hex) == SubSeq(hex, 1, ShardLen)

\* blobPath(digest): <root>/blobs/<algorithm>/<first-2-hex-chars>/<full-digest>/data
blobPath(root, d) ==
    RootPrefix(root) \o <<Seg("blobs"), Seg(d.algo), Shard(d.hex), d.hex, Seg("data")>>

\* blobPathToDigest matching any two characters as the shard
blobPathToDigest_AnyShard(root, path) ==
    LET pre == RootPrefix(root)
        n == Len(pre)
    IN  IF \/ Len(path) # n + 5
           \/ SubSeq(path, 1, n) # pre
           \/ path[n + 1] # Seg("blobs")
           \/ path[n + 5] # Seg("data")
           \/ Len(path[n + 2]) # 1
           \/ Len(path[n + 3]) # ShardLen
        THEN [digest |-> ZeroDigest, err |-> NoMatchError]
        ELSE LET p == ParseSHA256Digest(DigestString(path[n + 2][1], path[n + 4]))
             IN  IF p.err # Nil
                 THEN [digest |-> ZeroDigest, err |-> NoMatchError]
                 ELSE [digest |-> p.d, err |-> Nil]

\* blobPathToDigest(path): the inverse of blobPath; a path of another shape,
\* with a malformed digest, or whose shard is not the first two characters of
\* its digest does not match
blobPathToDigest(root, path) ==
    LET pre == RootPrefix(root)
        n == Len(pre)
    IN  IF \/ Len(path) # n + 5
           \/ SubSeq(path, 1, n) # pre
           \/ path[n + 1] # Seg("blobs")
           \/ path[n + 5] # Seg("data")
           \/ Len(path[n + 2]) # 1
           \/ Len(path[n + 4]) < ShardLen
        THEN [digest |-> ZeroDigest, err |-> NoMatchError]
        ELSE IF path[n + 3] # Shard(path[n + 4])
        THEN [digest |-> ZeroDigest, err |-> NoMatchError]
        ELSE LET p == ParseSHA256Digest(DigestString(path[n + 2][1], path[n + 4]))
             IN  IF p.err # Nil
                 THEN [digest |-> ZeroDigest, err |-> NoMatchError]
                 ELSE [digest |-> p.d, err |-> Nil]

\* the digests and the paths the pathers are called with
GoodDigestC == DigestString("sha256", <<"1","a">> \o Repeat("4", HexLen - 2))
PathDigests == {ParseSHA256Digest(s).d : s \in {GoodDigestA, GoodDigestB, GoodDigestC}}

\* paths shaped like a blob path: any root, algorithm, shard, digest and last
\* segment
BlobPaths ==
    {RootPrefix(r) \o <<Seg("blobs"), Seg(a), sh, hx, Seg(last)>> :
        r \in LayoutRoots, a \in {"sha256", "sha512"},
        sh \in {Shard(d.hex) : d \in PathDigests} \cup {<<"f", "f">>},
        hx \in {d.hex : d \in PathDigests} \cup {ShortDigest.hex},
        last \in {"data", "link"}}

CallBlobPath ==
    /\ pathCall = NoPathCall
    /\ \E root \in LayoutRoots, d \in PathDigests :
          pathCall' = [fn |-> "blobPath", root |-> root, arg |-> d,
                       out |-> blobPath(root, d)]
    /\ UNCHANGED <<parseVars, closeVars, typesVars>>

CallBlobPathToDigest ==
    /\ pathCall = NoPathCall
    /\ \E root \in LayoutRoots, path \in BlobPaths :
          pathCall' = [fn |-> "blobPathToDigest", root |-> root, arg |-> path,
                       out |-> blobPathToDigest(root, path)]
    /\ UNCHANGED <<parseVars, closeVars, typesVars>>

\* A repository name is the sequence of its path segments (helm/mychart has
\* two); a tag is one segment.
RepoWords == {"helm", "mychart", "library"}
Repositories == SeqsUpTo({Seg(w) : w \in RepoWords}, MaxRepoSegs) \ {<<>>}
Tags == {"1.0.0", "latest"}

TagSuffixLen == 5
TagSuffix(tag) ==
    <<Seg("_manifests"), Seg("tags"), Seg(tag), Seg("current"), Seg("link")>>

\* nameToTagPath(repository, tag):
\* <root>/repositories/<repository>/_manifests/tags/<tag>/current/link
nameToTagPath(root, repo, tag) ==
    RootPrefix(root) \o <<Seg("repositories")>> \o repo \o TagSuffix(tag)

NoName == [repo |-> <<>>, tag |-> "", err |-> NoMatchError]

\* tagPathToName taking one segment as the repository
tagPathToName_OneSegmentRepo(root, path) ==
    LET pre == RootPrefix(root)
        n == Len(pre)
        len == Len(path)
    IN  IF \/ len < n + 1 + 1 + TagSuffixLen
           \/ SubSeq(path, 1, n) # pre
           \/ path[n + 1] # Seg("repositories")
           \/ Len(path[len - 2]) # 1
        THEN NoName
        ELSE IF SubSeq(path, len - TagSuffixLen + 1, len) # TagSuffix(path[len - 2][1])
        THEN NoName
        ELSE [repo |-> <<path[len - TagSuffixLen]>>, tag |-> path[len - 2][1], err |-> Nil]

\* tagPathToName(path): the inverse of nameToTagPath; the repository is
\* everything between "repositories" and "_manifests"
tagPathToName(root, path) ==
    LET pre == RootPrefix(root)
        n == Len(pre)
        len == Len(path)
    IN  IF \/ len < n + 1 + 1 + TagSuffixLen
           \/ SubSeq(path, 1, n) # pre
           \/ path[n + 1] # Seg("repositories")
           \/ Len(path[len - 2]) # 1
        THEN NoName
        ELSE IF SubSeq(path, len - TagSuffixLen + 1, len) # TagSuffix(path[len - 2][1])
        THEN NoName
        ELSE [repo |-> SubSeq(path, n + 2, len - TagSuffixLen),
              tag |-> path[len - 2][1], err |-> Nil]

\* paths shaped like a tag path: any root, repository, tag and last segment,
\* and the same without a repository
TagPaths ==
    {RootPrefix(r) \o <<Seg("repositories")>> \o repo
        \o <<Seg("_manifests"), Seg("tags"), Seg(t), Seg("current"), Seg(last)>> :
        r \in LayoutRoots, repo \in Repositories \cup {<<>>}, t \in Tags,
        last \in {"link", "data"}}

CallNameToTagPath ==
    /\ pathCall = NoPathCall
    /\ \E root \in LayoutRoots, repo \in Repositories, tag \in Tags :
          pathCall' = [fn |-> "nameToTagPath", root |-> root,
                       arg |-> [repo |-> repo, tag |-> tag],
                       out |-> nameToTagPath(root, repo, tag)]
    /\ UNCHANGED <<parseVars, closeVars, typesVars>>

CallTagPathToName ==
    /\ pathCall = NoPathCall
    /\ \E root \in LayoutRoots, path \in TagPaths :
          pathCall' = [fn |-> "tagPathToName", root |-> root, arg |-> path,
                       out |-> tagPathToName(root, path)]
    /\ UNCHANGED <<parseVars, closeVars, typesVars>>

----------------------------------------------------------------------------
(* Specifications *)

\* no parse call made yet, on the reader and bytes given
ParseStart(b, rf, dg) ==
    /\ op = "none"
    /\ pc = "idle"
    /\ input = b
    /\ readFails = rf
    /\ digester = dg
    /\ attempts = <<>>
    /\ res = NoResult
    /\ refsRes = NoRefs

\* every closer open, nothing logged
CloseStart ==
    /\ closed = [c \in Closers |-> FALSE]
    /\ closing = NilCloser
    /\ log = <<>>
    /\ closeRet = "none"

\* GetSupportedManifestTypes not called yet
TypesStart == supported = NotCalled

\* no pather called yet
PathStart == pathCall = NoPathCall

Init ==
    /\ \E b \in Inputs, rf \in BOOLEAN, dg \in Digesters : ParseStart(b, rf, dg)
    /\ CloseStart
    /\ TypesStart
    /\ PathStart

Next ==
    \/ ParseManifest_Read
    \/ ParseManifest_TryV2
    \/ ParseManifest_TryOCI
    \/ ParseManifest_TryList
    \/ ParseManifest_TryIndex
    \/ CallParseManifestV2
    \/ CallParseOCIManifest
    \/ CallParseManifestV2List
    \/ CallParseOCIIndex
    \/ CallGetManifestReferences
    \/ CallGetSupportedManifestTypes

Spec == Init /\ [][Next]_vars

NextClose ==
    \/ Close
    \/ Reopen

InitClose ==
    /\ ParseStart(Malformed(0), FALSE, "sha256")
    /\ CloseStart
    /\ TypesStart
    /\ PathStart

SpecClose == InitClose /\ [][NextClose]_vars

NextPath ==
    \/ CallBlobPath
    \/ CallBlobPathToDigest
    \/ CallNameToTagPath
    \/ CallTagPathToName

InitPath ==
    /\ ParseStart(Malformed(0), FALSE, "sha256")
    /\ CloseStart
    /\ TypesStart
    /\ PathStart

SpecPath == InitPath /\ [][NextPath]_vars

----------------------------------------------------------------------------
(* Vocabulary of the properties *)

ChainOrder == <<"ParseManifestV2", "ParseOCIManifest", "ParseManifestV2List", "ParseOCIIndex">>
VariantParsers == {ChainOrder[i] : i \in 1..Len(ChainOrder)}
ParseOps == VariantParsers \cup {"ParseManifest"}

\* the media type of the variant a parser stands for
OwnType(name) ==
    CASE name = "ParseManifestV2"     -> v2ManifestType
      [] name = "ParseOCIManifest"    -> ociManifestType
      [] name = "ParseManifestV2List" -> v2ManifestListType
      [] name = "ParseOCIIndex"       -> ociIndexType

\* what a variant parser returns on the bytes
ResultOf(name, b) ==
    CASE name = "ParseManifestV2"     -> ParseManifestV2(b)
      [] name = "ParseOCIManifest"    -> ParseOCIManifest(b)
      [] name = "ParseManifestV2List" -> ParseManifestV2List(b)
      [] name = "ParseOCIIndex"       -> ParseOCIIndex(b)

Returned(name) == pc = "done" /\ op = name

\* a digest string that is a well-formed sha256 digest
WellFormedSha256(s) ==
    /\ s.algo = "sha256"
    /\ Len(s.hex) = HexLen
    /\ \A i \in 1..Len(s.hex) : s.hex[i] \in HexChars

\* the three validations of one attempt: the bytes deserialize under the
\* variant's grammar (the media type, when declared, is the variant's),
\* schemaVersion is 2, and a digest can be derived
Deserializes(name, b) ==
    /\ b.json
    /\ \/ b.mediaType = OwnType(name)
       \/ b.mediaType = "" /\ name \in {"ParseOCIManifest", "ParseOCIIndex"}

ValidUnder(name, b) ==
    /\ Deserializes(name, b)
    /\ b.schemaVersion = 2
    /\ WellFormedSha256(FromBytes(b))

ValidVariants(b) == {name \in VariantParsers : ValidUnder(name, b)}

----------------------------------------------------------------------------
(* Properties *)

\* C1: bytes valid under exactly one of the four variants make ParseManifest
\* succeed with that variant, the payload media type being the one the bytes
\* declare; bytes valid under none make ParseManifest return an error.
C1_ResolveExactlyOneOrReject ==
    (Returned("ParseManifest") /\ ~readFails) =>
        /\ \A name \in VariantParsers :
              ValidVariants(input) = {name} =>
                  /\ res.err = Nil
                  /\ res.manifest # Nil
                  /\ PayloadMediaType(res.manifest[1]) = OwnType(name)
                  /\ PayloadMediaType(res.manifest[1]) = input.mediaType
        /\ ValidVariants(input) = {} => res.err # Nil

\* C2: a payload whose schemaVersion is not 2 is rejected (error, no manifest)
\* by ParseManifest and by each of the four variant parsers.
C2_VersionGate ==
    (pc = "done" /\ op \in ParseOps /\ ~readFails /\ input.schemaVersion # 2) =>
        /\ res.err # Nil
        /\ res.manifest = Nil

\* the aggregate error of a chain whose four attempts all failed
UnrecognizedManifestFormat == <<"unrecognized manifest format">>

\* C3: when all four attempts fail ParseManifest returns the one aggregate
\* UnrecognizedManifestFormat error, which is not the error of the last
\* attempt (the OCI index one) nor of any other attempt.
C3_AggregateError ==
    (Returned("ParseManifest") /\ ~readFails /\ res.err # Nil) =>
        /\ res.err = UnrecognizedManifestFormat
        /\ \A name \in VariantParsers : res.err # ResultOf(name, input).err

\* the variant parser got past deserialization and the version test and
\* failed at the digest
DigestStageFails(name, b) ==
    /\ Deserializes(name, b)
    /\ ResultOf(name, b).err # Nil
    /\ ResultOf(name, b).err[1] = "parse digest"

Succeeding(b) == {i \in 1..Len(ChainOrder) : ResultOf(ChainOrder[i], b).err = Nil}
First(S) == CHOOSE i \in S : \A j \in S : i <= j

\* C5: ParseManifest tries ParseManifestV2, ParseOCIManifest,
\* ParseManifestV2List, ParseOCIIndex in this order, tries a parser only when
\* every earlier one returned an error, and returns what the first successful
\* parser of the order returned.
C5_FixedOrderFirstSuccess ==
    (op = "ParseManifest") =>
        /\ Len(attempts) <= Len(ChainOrder)
        /\ \A i \in 1..Len(attempts) :
              /\ attempts[i] = ChainOrder[i]
              /\ \A j \in 1..(i - 1) : ResultOf(ChainOrder[j], input).err # Nil
        /\ (pc = "done" /\ ~readFails) =>
              IF Succeeding(input) # {}
              THEN /\ Len(attempts) = First(Succeeding(input))
                   /\ res = ResultOf(ChainOrder[First(Succeeding(input))], input)
              ELSE /\ Len(attempts) = Len(ChainOrder)
                   /\ res.err # Nil

C5_Witness ==
    /\ Returned("ParseManifest")
    /\ res.err = Nil
    /\ attempts = <<"ParseManifestV2", "ParseOCIManifest", "ParseManifestV2List">>

\* C6: a variant parser returns an error on well-formed bytes that declare
\* one of the other three media types, and whenever it succeeds the payload
\* media type of the manifest it returns is the parser's own.
C6_OwnMediaTypeOnly ==
    (pc = "done" /\ op \in VariantParsers) =>
        /\ (input.json /\ input.mediaType \in SupportedTypes \ {OwnType(op)}) =>
              /\ res.err # Nil
              /\ res.manifest = Nil
        /\ res.err = Nil => PayloadMediaType(res.manifest[1]) = OwnType(op)

C6_Witness ==
    /\ Returned("ParseOCIIndex")
    /\ input.json
    /\ input.schemaVersion = 2
    /\ input.mediaType = v2ManifestListType
    /\ res.err # Nil

\* the bytes with the same descriptors as b: they differ from b in whitespace,
\* schemaVersion or mediaType, or not at all
SameDescriptors(b) == {x \in Inputs : x.refs = b.refs /\ x.shape = b.shape}

\* C7: on success the digest is the sha256 of exactly the input bytes: its
\* algorithm is "sha256", and for any bytes any of the parsers accepts the
\* digests are equal exactly when the bytes are equal, whitespace included.
\* The bytes compared with the input are those of SameDescriptors.
C7_DigestOfExactBytes ==
    (pc = "done" /\ op \in ParseOps /\ res.err = Nil) =>
        /\ res.digest.algo = "sha256"
        /\ res.digest.hex = Sha256Hex(input)
        /\ \A b \in SameDescriptors(input), name \in VariantParsers :
              ResultOf(name, b).err = Nil =>
                  (ResultOf(name, b).digest = res.digest <=> b = input)

C7_Witness ==
    /\ Returned("ParseManifest")
    /\ res.err = Nil
    /\ input.ws > 0
    /\ res.digest # ParseManifestV2([input EXCEPT !.ws = 0]).digest
    /\ ParseManifestV2([input EXCEPT !.ws = 0]).err = Nil

\* C8: every parse call returns either a manifest, a valid digest and a nil
\* error, or no manifest, the zero digest and an error; a failed read is of
\* the second kind and no parser is attempted.
C8_AllOrNothing ==
    (pc = "done" /\ op \in ParseOps) =>
        /\ \/ /\ res.manifest # Nil
              /\ res.err = Nil
              /\ WellFormedSha256(res.digest)
           \/ /\ res.manifest = Nil
              /\ res.err # Nil
              /\ res.digest = ZeroDigest
        /\ (op = "ParseManifest" /\ readFails) =>
              /\ res.err # Nil
              /\ attempts = <<>>

C8_Witness ==
    /\ Returned("ParseManifestV2")
    /\ input.json
    /\ input.mediaType = v2ManifestType
    /\ input.schemaVersion # 2
    /\ res.err # Nil

\* C9: GetManifestReferences returns the digests of all reference descriptors
\* of the manifest, one per descriptor and in their order; when one of them
\* is malformed it returns an error and no list.
C9_AllReferencesOrNone ==
    (refsRes # NoRefs) =>
        LET descs == refsRes.arg[1].refs
        IN  IF \A i \in 1..Len(descs) : WellFormedSha256(descs[i])
            THEN /\ refsRes.err = Nil
                 /\ Len(refsRes.refs) = Len(descs)
                 /\ \A i \in 1..Len(descs) :
                       refsRes.refs[i] = [algo |-> "sha256", hex |-> descs[i].hex]
            ELSE /\ refsRes.err # Nil
                 /\ refsRes.refs = Nil

C9_Witness ==
    /\ refsRes # NoRefs
    /\ refsRes.err # Nil
    /\ Len(refsRes.arg[1].refs) = 2
    /\ WellFormedSha256(refsRes.arg[1].refs[1])
    /\ refsRes.arg[1].gotype = "manifestlist.DeserializedManifestList"

\* C10: Close returns normally whatever closer.Close() returns, and a close
\* that fails because the resource was already released is logged at debug
\* level, not as an error.
C10_AlreadyClosedIsDebug ==
    /\ closeRet \in {"none", "returned"}
    /\ \A i \in 1..Len(log) :
          log[i].err.cause = "os.ErrClosed" => log[i].level = "debug"

\* the last call of Close was handed a closer whose Close() reported that the
\* data could not be flushed
FlushFailureReported ==
    /\ closing = "unflushed"
    /\ log # <<>>
    /\ log[Len(log)].err.cause = "syscall.ENOSPC"

\* C11: after Close runs on a closer whose Close() reports that data was not
\* durably flushed, the caller observes an error outcome, not a normal return.
C11_FlushFailurePropagates ==
    FlushFailureReported => closeRet = "error"

\* strings.Split(s, sep) on a string given by its pieces: the runs of pieces
\* between two separators
RECURSIVE Split(_, _)
Split(s, sep) ==
    IF s = <<>> THEN <<<<>>>>
    ELSE LET rest == Split(Tail(s), sep)
         IN  IF Head(s) = sep
             THEN <<<<>>>> \o rest
             ELSE <<<<Head(s)>> \o Head(rest)>> \o Tail(rest)

\* C12: every call of GetSupportedManifestTypes returns the same string; cut
\* at its commas it is the four supported media types, each verbatim and
\* exactly once, and nothing else.
C12_SupportedTypesString ==
    /\ [](supported # NotCalled =>
            LET fields == Split(supported, ",")
            IN  /\ Len(fields) = Cardinality(SupportedTypes)
                /\ \A i \in 1..Len(fields) : Len(fields[i]) = 1
                /\ {fields[i][1] : i \in 1..Len(fields)} = SupportedTypes)
    /\ [][supported # NotCalled => supported' = supported]_vars

C12_Witness ==
    /\ supported # NotCalled
    /\ pc = "done"

\* C13: for both layout roots and every valid digest d, blobPath(d) is
\* <root>/blobs/<algorithm>/<first two hex characters of d>/<d>/data and
\* blobPathToDigest(blobPath(d)) = d; blobPathToDigest returns NoMatchError
\* for every path whose shard segment is not the first two characters of the
\* digest in the path.
C13_BlobPathRoundTrip ==
    /\ pathCall.fn = "blobPath" =>
          LET d == pathCall.arg
              pre == RootPrefix(pathCall.root)
          IN  /\ pathCall.out =
                    pre \o <<Seg("blobs"), Seg(d.algo), <<d.hex[1], d.hex[2]>>,
                             d.hex, Seg("data")>>
              /\ blobPathToDigest(pathCall.root, pathCall.out) =
                    [digest |-> d, err |-> Nil]
    /\ pathCall.fn = "blobPathToDigest" =>
          LET path == pathCall.arg
              n == Len(path)
          IN  (n >= 3 /\ Len(path[n - 1]) >= 2
               /\ path[n - 2] # <<path[n - 1][1], path[n - 1][2]>>)
                  => /\ pathCall.out.err = NoMatchError
                     /\ pathCall.out.digest = ZeroDigest

C13_Witness ==
    /\ pathCall.fn = "blobPathToDigest"
    /\ pathCall.root = "OCIv1"
    /\ pathCall.arg = RootPrefix("OCIv1")
                      \o <<Seg("blobs"), Seg("sha256"), <<"6", "3">>,
                           GoodDigestA.hex, Seg("data")>>
    /\ pathCall.out.err = NoMatchError

\* C14: for both layout roots and every valid (repository, tag), repositories
\* of several path segments included, nameToTagPath(r, t) is
\* <root>/repositories/<r>/_manifests/tags/<t>/current/link and
\* tagPathToName(nameToTagPath(r, t)) = (r, t).
C14_TagPathRoundTrip ==
    pathCall.fn = "nameToTagPath" =>
        LET r == pathCall.arg.repo
            t == pathCall.arg.tag
        IN  /\ pathCall.out =
                  RootPrefix(pathCall.root) \o <<Seg("repositories")>> \o r
                  \o <<Seg("_manifests"), Seg("tags"), Seg(t), Seg("current"), Seg("link")>>
            /\ tagPathToName(pathCall.root, pathCall.out) =
                  [repo |-> r, tag |-> t, err |-> Nil]

C14_Witness ==
    /\ pathCall.fn = "nameToTagPath"
    /\ pathCall.root = "OCIv1"
    /\ pathCall.arg = [repo |-> <<Seg("helm"), Seg("mychart")>>, tag |-> "1.0.0"]

====
